---- MODULE Spec2Model ----
(***************************************************************************)
(* Model of the retailer registration form (RetailerForm.jsx, first        *)
(* component of the file) and of the directory service it talks to         *)
(* (server/server.js).  Strings are sequences of one-character strings so  *)
(* that trimming, the regular expressions and capitalizeWords are computed *)
(* the way the code computes them.                                         *)
(***************************************************************************)
EXTENDS Integers, Sequences, FiniteSets, TLC

(***************************************************************************)
(* Bounds of the model.                                                    *)
(***************************************************************************)
\* Spec: submit attempts that pass validation, and address lookups started
MaxSubmits == 2
MaxLookups == 1
\* SpecStep2
Step2Submits == 1
Step2Lookups == 1
\* SpecEdit: openings of the details view, submits and lookups
EditDetails == 2
EditSubmits == 1
EditLookups == 1
\* SpecLookup
LookupLookups == 1
LookupSubmits == 1
\* SpecFilter: the longest list of records filtered
MaxRecords == 3
\* SpecList: openings of the details view and filter input changes
ListDetails == 1
ListFilters == 2
\* SpecRace: openings of the details view, filter input changes and deletes
RaceDetails == 1
RaceFilters == 1
RaceDeletes == 1
\* SpecExport: openings of the details view and filter input changes
ExportDetails == 1
ExportFilters == 1
\* SpecPaths: submits, lookups and openings of the details view
PathSubmits == 1
PathLookups == 1
PathDetails == 1
\* SpecAnswer: lookups and openings of the details view
AnswerLookups == 1
AnswerDetails == 1
\* SpecDelete: openings of the details view and deletes
DeleteDetails == 1
DeleteDeletes == 2
\* SpecBack: openings of the details view and lookups
BackDetails == 1
BackLookups == 1
\* SpecMerge: openings of the details view and lookups
MergeDetails == 1
MergeLookups == 1

(***************************************************************************)
(* Characters and strings.                                                 *)
(***************************************************************************)
LowerLetters ==
  <<"a","b","c","d","e","f","g","h","i","j","k","l","m",
    "n","o","p","q","r","s","t","u","v","w","x","y","z">>

UpperLetters ==
  <<"A","B","C","D","E","F","G","H","I","J","K","L","M",
    "N","O","P","Q","R","S","T","U","V","W","X","Y","Z">>

Digits == {"0","1","2","3","4","5","6","7","8","9"}

WhiteSpace == {" ", "\t", "\n"}

Range(s) == {s[i] : i \in DOMAIN s}

\* \w of a JavaScript regular expression
IsWordChar(c) ==
  c \in Range(LowerLetters) \cup Range(UpperLetters) \cup Digits \cup {"_"}

\* String.prototype.toUpperCase on one character
toUpperCase(c) ==
  IF c \in Range(LowerLetters)
  THEN UpperLetters[CHOOSE i \in DOMAIN LowerLetters : LowerLetters[i] = c]
  ELSE c

\* String.prototype.trim
trim(s) ==
  LET keep == {i \in DOMAIN s : s[i] \notin WhiteSpace}
  IN  IF keep = {} THEN <<>>
      ELSE SubSeq(s, CHOOSE i \in keep : \A j \in keep : i <= j,
                     CHOOSE i \in keep : \A j \in keep : i >= j)

\* str.replace(/\b\w/g, upper): a word character is upper-cased when it starts
\* the string or follows a non-word character
capitalizeWords(str) ==
  IF str = <<>> THEN <<>>
  ELSE [i \in 1..Len(str) |->
          IF IsWordChar(str[i]) /\ (i = 1 \/ ~IsWordChar(str[i-1]))
          THEN toUpperCase(str[i]) ELSE str[i]]

\* /^\d{n}$/.test(s)
IsDigits(s, n) == Len(s) = n /\ \A i \in DOMAIN s : s[i] \in Digits

\* /^\d{10}$/
PhonePattern(s) == IsDigits(s, 10)

\* /^\d{6}$/
PincodePattern(s) == IsDigits(s, 6)

NonSpace(s, a, b) == \A i \in a..b : s[i] \notin WhiteSpace

\* /\S+@\S+\.\S+/.test(s): the pattern is not anchored, so it is searched
\* anywhere in s.  p is the position of "@", q the position of "."
EmailPattern(s) ==
  \E p \in DOMAIN s, q \in DOMAIN s :
     /\ s[p] = "@" /\ s[q] = "."
     /\ p >= 2 /\ s[p-1] \notin WhiteSpace
     /\ q >= p + 2 /\ NonSpace(s, p+1, q-1)
     /\ q < Len(s) /\ s[q+1] \notin WhiteSpace

\* the shape local@domain.tld of the data model, ^\S+@\S+\.\S+$: the whole
\* string is free of white space and has the three parts
EmailShape(s) ==
  /\ NonSpace(s, 1, Len(s))
  /\ \E p \in DOMAIN s, q \in DOMAIN s :
        s[p] = "@" /\ s[q] = "." /\ p >= 2 /\ q >= p + 2 /\ q < Len(s)

(***************************************************************************)
(* Program constants.                                                      *)
(***************************************************************************)
businessCategories ==
  << <<"C","o","m","p","u","t","e","r"," ","a","n","d"," ","I","T">>,
     <<"E","l","e","c","t","r","o","n","i","c","s">>,
     <<"E","l","e","c","t","r","i","c","a","l">>,
     <<"A","u","t","o","m","o","b","i","l","e","s">> >>

India == <<"I","n","d","i","a">>

\* the absent _id of a draft that was not loaded from a record
NullId == 0


\* String.prototype.toLowerCase on one character
toLowerCase(c) ==
  IF c \in Range(UpperLetters)
  THEN LowerLetters[CHOOSE i \in DOMAIN UpperLetters : UpperLetters[i] = c]
  ELSE c

lower(s) == [i \in 1..Len(s) |-> toLowerCase(s[i])]

\* String.prototype.includes
includes(hay, needle) ==
  \E i \in 1..(Len(hay) + 1) :
     /\ i + Len(needle) - 1 <= Len(hay)
     /\ SubSeq(hay, i, i + Len(needle) - 1) = needle

\* a || b on strings: the empty string is falsy
Or(a, b) == IF a # <<>> THEN a ELSE b

EmptyMap == [k \in {} |-> ""]

(***************************************************************************)
(* State.                                                                  *)
(***************************************************************************)
VARIABLES
  formData,               \* the draft
  errors,                 \* error map: field key -> message
  currentStep,
  isSubmitting,
  successMessage,
  showDataModal,
  retailers,
  filteredData,
  debounced,              \* the five debounced filter criteria
  editMode,
  editIndex,              \* <<>> for null, <<shop>> for the record being edited
  loading,
  lastSubmittedCategory,
  toast,
  store,                  \* the directory service's collection
  nextId,                 \* the next identifier the service assigns
  submits,                \* handleSubmit invocations suspended at an await
  fetches,                \* fetchShops invocations of the details view
  lookups,                \* fetchPincodeData invocations suspended at fetch
  timers,                 \* reset timers scheduled by handleSubmit, oldest first
  filters,                \* the five filter inputs of the details view
  pending,                \* the filter fields whose debounce timer is running
  deletingIds,
  deletes,                \* handleDelete invocations suspended at deleteShop
  budget,                 \* submits, lookups and openings of the details view
                          \* the behaviour may still start
  finished,               \* the fetchPincodeData chain that ended last: its
                          \* outcome and the requests it made
  saved,                  \* the file saveAs delivered last: <<>> or <<file>>
  response                \* the last answer of the service to a PUT or DELETE
                          \* sent to it directly: <<>> or <<answer>>

formVars == <<formData, errors, currentStep, editMode, editIndex>>
viewVars == <<isSubmitting, successMessage, showDataModal, loading, toast,
              lastSubmittedCategory>>
listVars == <<retailers, filteredData, debounced>>
serverVars == <<store, nextId>>
flightVars == <<submits, fetches, lookups, timers>>
detailVars == <<filters, pending, deletingIds, deletes>>
vars == <<formVars, viewVars, listVars, serverVars, flightVars, detailVars,
          budget, finished, saved, response>>

\* the initial value of formData, and the value resetForm stores
EmptyForm(category) ==
  [ _id |-> NullId,
    businessCategory |-> Or(category, <<>>),
    ownerName |-> <<>>, shopName |-> <<>>, shopPhone |-> <<>>,
    email |-> <<>>, website |-> <<>>,
    address |-> [ street |-> <<>>, pincode |-> <<>>, village |-> <<>>,
                  taluka |-> <<>>, district |-> <<>>, state |-> <<>>,
                  country |-> India ] ]

NoToast == [show |-> FALSE, message |-> <<>>, type |-> "success"]

showToast(message, type) == [show |-> TRUE, message |-> message, type |-> type]

NoFilters ==
  [category |-> <<>>, state |-> <<>>, district |-> <<>>, taluka |-> <<>>,
   village |-> <<>>]

(***************************************************************************)
(* Validation.                                                             *)
(***************************************************************************)
Err(failed, key, message) == IF failed THEN key :> message ELSE EmptyMap

\* validateStep, case 1: the error map it builds
Step1Errors(fd) ==
     Err(fd.businessCategory = <<>>,
         "businessCategory", "Business category is required")
  @@ Err(trim(fd.ownerName) = <<>>, "ownerName", "Owner name is required")
  @@ Err(trim(fd.shopName) = <<>>, "shopName", "Shop name is required")
  @@ (IF trim(fd.shopPhone) = <<>>
      THEN "shopPhone" :> "Phone number is required"
      ELSE Err(~PhonePattern(fd.shopPhone),
               "shopPhone", "Phone number must be exactly 10 digits"))
  @@ (IF trim(fd.email) = <<>>
      THEN "email" :> "Email is required"
      ELSE Err(~EmailPattern(fd.email), "email", "Invalid email format"))

\* validateStep, case 2, without the test of the pincode pattern
Step2ErrorsNoPattern(fd) ==
     Err(trim(fd.address.street) = <<>>, "address", "Address is required")
  @@ Err(trim(fd.address.pincode) = <<>>, "pincode", "PIN code is required")
  @@ Err(trim(fd.address.state) = <<>>, "state", "State is required")

\* validateStep, case 2
Step2Errors(fd) ==
     Err(trim(fd.address.street) = <<>>, "address", "Address is required")
  @@ (IF trim(fd.address.pincode) = <<>>
      THEN "pincode" :> "PIN code is required"
      ELSE Err(~PincodePattern(fd.address.pincode),
               "pincode", "PIN code must be exactly 6 digits"))
  @@ Err(trim(fd.address.state) = <<>>, "state", "State is required")

\* validateStep(step): the map handed to setErrors; isValid is false exactly
\* when an entry was added
validateStep(step, fd) ==
  CASE step = 1 -> Step1Errors(fd)
    [] step = 2 -> Step2Errors(fd)
    [] OTHER -> EmptyMap

isValid(stepErrors) == DOMAIN stepErrors = {}


(***************************************************************************)
(* The filter engine.                                                      *)
(***************************************************************************)
\* the test of a record with the category compared as it is written
MatchesFiltersExactCase(shop, f) ==
  /\ ~(f.category # <<>> /\ shop.businessCategory # f.category)
  /\ ~(f.state # <<>> /\ ~includes(lower(shop.address.state), lower(f.state)))
  /\ ~(f.district # <<>>
        /\ ~includes(lower(shop.address.district), lower(f.district)))
  /\ ~(f.taluka # <<>>
        /\ ~includes(lower(shop.address.taluka), lower(f.taluka)))
  /\ ~(f.village # <<>>
        /\ ~includes(lower(shop.address.village), lower(f.village)))

\* the predicate of data.filter in applyLocalFilters
MatchesFilters(shop, f) ==
  /\ ~(f.category # <<>> /\ lower(shop.businessCategory) # lower(f.category))
  /\ ~(f.state # <<>> /\ ~includes(lower(shop.address.state), lower(f.state)))
  /\ ~(f.district # <<>>
        /\ ~includes(lower(shop.address.district), lower(f.district)))
  /\ ~(f.taluka # <<>>
        /\ ~includes(lower(shop.address.taluka), lower(f.taluka)))
  /\ ~(f.village # <<>>
        /\ ~includes(lower(shop.address.village), lower(f.village)))

\* a filter that keeps the records some active criterion matches
applyAnyFilter(data, f) ==
  LET active == {k \in DOMAIN f : f[k] # <<>>}
      keep(shop) ==
        \/ active = {}
        \/ \E k \in active : MatchesFilters(shop, [NoFilters EXCEPT ![k] = f[k]])
  IN  SelectSeq(data, keep)

applyLocalFilters(data, f) ==
  LET keep(shop) == MatchesFilters(shop, f) IN SelectSeq(data, keep)

\* the filtered set as fetchShops stores it, without the effect after it
FilteredWithClosure(data, closureFilters, currentFilters) ==
  applyLocalFilters(data, closureFilters)

\* setRetailers(data) and setFilteredData(...) of fetchShops, followed by the
\* recomputation effect on [retailers, debounced...], which runs with the
\* criteria of the current render when the new list is not empty
FilteredAfterFetch(data, closureFilters, currentFilters) ==
  IF Len(data) > 0 THEN applyLocalFilters(data, currentFilters)
  ELSE applyLocalFilters(data, closureFilters)

(***************************************************************************)
(* The directory service.                                                  *)
(***************************************************************************)
RemoveAt(seq, i) == SubSeq(seq, 1, i - 1) \o SubSeq(seq, i + 1, Len(seq))

\* the required paths of shopSchema and addressSchema; an empty string fails
RequiredPresent(body) ==
  /\ body.businessCategory # <<>> /\ body.ownerName # <<>>
  /\ body.shopName # <<>> /\ body.shopPhone # <<>> /\ body.email # <<>>
  /\ body.address.street # <<>> /\ body.address.pincode # <<>>
  /\ body.address.state # <<>>

\* POST /api/shops: new Shop(req.body).save()
ServerCreate(body, st, nid) ==
  IF ~RequiredPresent(body) \/ \E i \in DOMAIN st : st[i]._id = body._id
  THEN [ok |-> FALSE, store |-> st, nextId |-> nid]
  ELSE IF body._id = NullId
       THEN [ok |-> TRUE, store |-> Append(st, [body EXCEPT !._id = nid]),
             nextId |-> nid + 1]
       ELSE [ok |-> TRUE, store |-> Append(st, body), nextId |-> nid]

\* PUT /api/shops/:id: Shop.findByIdAndUpdate(id, req.body, {new: true})
ServerUpdate(id, body, st, nid) ==
  IF \E i \in DOMAIN st : st[i]._id = id
  THEN [ok |-> TRUE,
        store |-> [i \in DOMAIN st |->
                     IF st[i]._id = id THEN [body EXCEPT !._id = id] ELSE st[i]],
        nextId |-> nid]
  ELSE [ok |-> FALSE, store |-> st, nextId |-> nid]

\* DELETE /api/shops/:id: Shop.findByIdAndDelete(id), 404 when there is none
ServerDelete(id, st) ==
  IF \E i \in DOMAIN st : st[i]._id = id
  THEN [ok |-> TRUE, store |-> SelectSeq(st, LAMBDA shop : shop._id # id)]
  ELSE [ok |-> FALSE, store |-> st]

\* an id that is no ObjectId
MalformedId == -1

\* a check of the id that lets every id through
anyObjectId(id) == TRUE

\* mongoose.isValidObjectId(id): the ObjectIds of the model are the positive
\* integers
isValidObjectId(id) == id > 0

\* app.put('/api/shops/:id'): the answer and the collection after it
putShopRoute(id, body, st, nid) ==
  IF ~isValidObjectId(id)
  THEN [status |-> 400, body |-> [error |-> "Invalid shop ID"], store |-> st]
  ELSE LET res == ServerUpdate(id, body, st, nid)
       IN  IF ~res.ok
           THEN [status |-> 404, body |-> [error |-> "Shop not found"],
                 store |-> st]
           ELSE [status |-> 200,
                 body |-> res.store[CHOOSE i \in DOMAIN res.store :
                                       res.store[i]._id = id],
                 store |-> res.store]

\* app.delete('/api/shops/:id'): the answer and the collection after it
deleteShopRoute(id, st) ==
  IF ~isValidObjectId(id)
  THEN [status |-> 400, body |-> [error |-> "Invalid shop ID"], store |-> st]
  ELSE LET res == ServerDelete(id, st)
       IN  IF ~res.ok
           THEN [status |-> 404, body |-> [error |-> "Shop not found"],
                 store |-> st]
           ELSE [status |-> 200,
                 body |-> [message |-> "Shop deleted successfully"],
                 store |-> res.store]

\* a client of the API sends PUT /api/shops/:id and is answered
putRequest(id, body) ==
  /\ store' = putShopRoute(id, body, store, nextId).store
  /\ response' = << [ status |-> putShopRoute(id, body, store, nextId).status,
                      body |-> putShopRoute(id, body, store, nextId).body ] >>
  /\ UNCHANGED <<formVars, viewVars, listVars, nextId, flightVars, detailVars,
                 budget, finished, saved>>

\* a client of the API sends DELETE /api/shops/:id and is answered
deleteRequest(id) ==
  /\ store' = deleteShopRoute(id, store).store
  /\ response' = << [ status |-> deleteShopRoute(id, store).status,
                      body |-> deleteShopRoute(id, store).body ] >>
  /\ UNCHANGED <<formVars, viewVars, listVars, nextId, flightVars, detailVars,
                 budget, finished, saved>>

(***************************************************************************)
(* What is on screen (the early returns of the render).                    *)
(***************************************************************************)
\* if (loading && !showDataModal) return <spinner>
Spinner == loading /\ ~showDataModal

\* the main return: neither the spinner nor the success display
MainView == ~Spinner /\ successMessage = ""

\* the success display
SuccessDisplay == ~Spinner /\ successMessage # ""

\* the form and the navigation bar can be operated: the main view is rendered
\* and the details overlay does not cover it
FormReachable == MainView /\ ~showDataModal

Step1Fields ==
  { <<"businessCategory">>, <<"ownerName">>, <<"shopName">>, <<"shopPhone">>,
    <<"email">>, <<"website">> }

Step2Fields ==
  { <<"address", "street">>, <<"address", "pincode">>, <<"address", "village">>,
    <<"address", "taluka">>, <<"address", "district">>, <<"address", "state">> }

\* renderStepContent: the inputs of the current step
RenderedFields == IF currentStep = 1 THEN Step1Fields ELSE Step2Fields

(***************************************************************************)
(* The pincode effect: useEffect(..., [formData.address.pincode]).         *)
(***************************************************************************)
PrimaryUrl == "api.postalpincode.in"
SecondaryUrl == "api.apitier.com"

\* the effect's guard with the test of the length alone
LookupTriggeredOnLength(oldForm, newForm) ==
  /\ newForm.address.pincode # oldForm.address.pincode
  /\ Len(newForm.address.pincode) = 6

\* the effect's guard, evaluated when the pincode of the draft is a new value
LookupTriggered(oldForm, newForm) ==
  /\ newForm.address.pincode # oldForm.address.pincode
  /\ Len(newForm.address.pincode) = 6
  /\ PincodePattern(newForm.address.pincode)

\* fetchPincodeData(primary url) called by the effect: one request in flight
PincodeEffect(oldForm, newForm) ==
  IF LookupTriggered(oldForm, newForm)
  THEN /\ budget.lookups > 0
       /\ lookups' = Append(lookups,
             [pincode |-> newForm.address.pincode, retries |-> 1,
              log |-> << <<PrimaryUrl, newForm.address.pincode>> >>])
       /\ budget' = [budget EXCEPT !.lookups = @ - 1]
  ELSE UNCHANGED <<lookups, budget>>


(***************************************************************************)
(* The form.                                                               *)
(***************************************************************************)
\* the value handleChange would store if it capitalized every field
processedValueEverywhere(name, value) == capitalizeWords(value)

\* the value handleChange stores: title case except for email and website
processedValue(name, value) ==
  IF name[Len(name)] \notin {"email", "website"}
  THEN capitalizeWords(value) ELSE value

\* the value an input shows
FieldValue(fd, name) ==
  IF Len(name) = 2 THEN fd[name[1]][name[2]] ELSE fd[name[1]]

\* the draft after handleChange
ChangedForm(fd, name, value) ==
  IF Len(name) = 2
  THEN [fd EXCEPT ![name[1]][name[2]] = processedValue(name, value)]
  ELSE [fd EXCEPT ![name[1]] = processedValue(name, value)]

\* the error map after handleChange: the entry under the last part of the
\* field name is blanked when it holds a message
ChangedErrors(errs, name) ==
  LET key == name[Len(name)]
  IN  IF key \in DOMAIN errs /\ errs[key] # ""
      THEN [errs EXCEPT ![key] = ""] ELSE errs

handleChange(name, value) ==
  /\ FormReachable
  /\ name \in RenderedFields
  /\ value # FieldValue(formData, name)
  /\ formData' = ChangedForm(formData, name, value)
  /\ errors' = ChangedErrors(errors, name)
  /\ PincodeEffect(formData, formData')
  /\ UNCHANGED <<detailVars, currentStep, editMode, editIndex, viewVars, listVars,
                 serverVars, submits, fetches, timers, finished, saved, response>>

\* the step a nextStep without validation would store
SteppedForwardUnchecked(step, fd) == IF step + 1 < 2 THEN step + 1 ELSE 2

\* the step nextStep stores: Math.min(prev + 1, 2) when the step validates
SteppedForward(step, fd) ==
  IF isValid(validateStep(step, fd))
  THEN (IF step + 1 < 2 THEN step + 1 ELSE 2) ELSE step

\* nextStep, from the Next button, Enter on the last field of step 1, or Ctrl+N
\* (the keydown listener stays attached whatever is rendered)
nextStep(trigger) ==
  /\ currentStep = 1
  /\ trigger \in {"button", "enter"} => FormReachable
  /\ errors' = validateStep(currentStep, formData)
  /\ currentStep' = SteppedForward(currentStep, formData)
  /\ UNCHANGED <<detailVars, formData, editMode, editIndex, viewVars, listVars, serverVars,
                 flightVars, budget, finished, saved, response>>

\* Math.max(prev - 1, 1)
SteppedBack(step) == IF step - 1 > 1 THEN step - 1 ELSE 1

\* a prevStep that validates the step it leaves, as nextStep does
prevStepValidated ==
  /\ FormReachable
  /\ currentStep # 1
  /\ isValid(validateStep(currentStep, formData))
  /\ currentStep' = SteppedBack(currentStep)
  /\ UNCHANGED <<detailVars, formData, errors, editMode, editIndex, viewVars, listVars,
                 serverVars, flightVars, budget, finished, saved, response>>

\* prevStep; the Previous button is disabled at step 1
prevStep ==
  /\ FormReachable
  /\ currentStep # 1
  /\ currentStep' = SteppedBack(currentStep)
  /\ UNCHANGED <<detailVars, formData, errors, editMode, editIndex, viewVars, listVars,
                 serverVars, flightVars, budget, finished, saved, response>>

\* if (editMode && editIndex?._id) updateShop(...) else createShop(...)
RequestKind(mode, index) ==
  IF mode /\ index # <<>> /\ index[1]._id # NullId THEN "update" ELSE "create"

\* the invocation of handleSubmit suspended at await createShop / updateShop,
\* with the values its closure holds
SubmitCall(fd, mode, index, category, filt) ==
  [ pc |-> "mutate",
    kind |-> RequestKind(mode, index),
    target |-> IF index # <<>> THEN index[1]._id ELSE NullId,
    shopData |-> [fd EXCEPT !.ownerName = trim(fd.ownerName)],
    category |-> fd.businessCategory,
    lsc |-> category,
    filt |-> filt ]

\* the Submit button is rendered at step 2 and disabled while isSubmitting;
\* Enter on the state field and Ctrl+S call handleSubmit without that check
SubmitAllowed(trigger) ==
  /\ currentStep = 2
  /\ trigger = "button" => FormReachable /\ ~isSubmitting
  /\ trigger = "enter" => FormReachable

\* handleSubmit up to its first await
handleSubmit(trigger) ==
  /\ SubmitAllowed(trigger)
  /\ errors' = validateStep(2, formData)
  /\ IF ~isValid(errors')
     THEN /\ toast' = showToast(<<"Please fix the errors before submitting.">>,
                                "error")
          /\ UNCHANGED <<isSubmitting, loading, submits, budget>>
     ELSE /\ budget.submits > 0
          /\ isSubmitting' = TRUE
          /\ loading' = TRUE
          /\ submits' = Append(submits,
                SubmitCall(formData, editMode, editIndex,
                           lastSubmittedCategory, debounced))
          /\ budget' = [budget EXCEPT !.submits = @ - 1]
          /\ UNCHANGED toast
  /\ UNCHANGED <<detailVars, formData, currentStep, editMode, editIndex, successMessage,
                 showDataModal, lastSubmittedCategory, listVars, serverVars,
                 fetches, lookups, timers, finished, saved, response>>

\* setTimeout(() => { setSuccessMessage(""); resetForm(); }, 3000): the
\* callback keeps the resetForm of the render handleSubmit ran in
\* (after records how that handleSubmit ended; the code does not look at it)
ResetTimerOf(call, outcome) == [lsc |-> call.lsc, after |-> outcome]

\* the create or update request is answered (or fails on the network), and
\* handleSubmit runs on to await fetchShops(), or through catch and finally
MutationResponse(i, net) ==
  /\ i \in DOMAIN submits
  /\ submits[i].pc = "mutate"
  /\ LET call == submits[i]
         res == IF net = "error" THEN [ok |-> FALSE, store |-> store,
                                       nextId |-> nextId]
                ELSE IF call.kind = "update"
                     THEN ServerUpdate(call.target, call.shopData, store, nextId)
                     ELSE ServerCreate(call.shopData, store, nextId)
     IN  /\ store' = res.store
         /\ nextId' = res.nextId
         /\ IF res.ok
            THEN /\ lastSubmittedCategory' =
                      IF call.kind = "create" THEN call.category
                      ELSE lastSubmittedCategory
                 /\ toast' = showToast(
                      IF call.kind = "update"
                      THEN <<"Retailer updated successfully!">>
                      ELSE <<"Registration submitted successfully!">>, "success")
                 /\ loading' = TRUE
                 /\ submits' = [submits EXCEPT ![i].pc = "refetch"]
                 /\ UNCHANGED <<isSubmitting, timers>>
            ELSE /\ toast' = showToast(
                      <<"Operation failed: ",
                        IF net = "error" THEN "Failed to fetch"
                        ELSE IF call.kind = "update"
                             THEN "Failed to update shop"
                             ELSE "Failed to create shop">>, "error")
                 /\ isSubmitting' = FALSE
                 /\ loading' = FALSE
                 /\ submits' = RemoveAt(submits, i)
                 /\ timers' = Append(timers, ResetTimerOf(call, "failure"))
                 /\ UNCHANGED lastSubmittedCategory
  /\ UNCHANGED <<detailVars, formVars, successMessage, showDataModal, listVars, fetches,
                 lookups, budget, finished, saved, response>>

\* the fetchShops() awaited by handleSubmit completes; handleSubmit sets the
\* success message, runs finally and schedules the reset
RefetchResponse(i, net) ==
  /\ i \in DOMAIN submits
  /\ submits[i].pc = "refetch"
  /\ LET call == submits[i]
     IN  /\ IF net = "ok"
            THEN /\ retailers' = store
                 /\ filteredData' = FilteredAfterFetch(store, call.filt, debounced)
                 /\ UNCHANGED toast
            ELSE /\ toast' = showToast(<<"Failed to fetch retailer data">>,
                                       "error")
                 /\ UNCHANGED <<retailers, filteredData>>
         /\ successMessage' = "Operation completed successfully!"
         /\ isSubmitting' = FALSE
         /\ loading' = FALSE
         /\ submits' = RemoveAt(submits, i)
         /\ timers' = Append(timers, ResetTimerOf(call, "success"))
  /\ UNCHANGED <<detailVars, formVars, showDataModal, lastSubmittedCategory, debounced,
                 serverVars, fetches, lookups, budget, finished, saved, response>>

\* resetForm that clears the business fields and forgets the address
resetFormKeepingAddress(category) ==
  [EmptyForm(category) EXCEPT !.address = formData.address]

\* resetForm as the timer's callback calls it
resetForm(category) == EmptyForm(category)

\* the oldest reset timer fires
ResetTimer ==
  /\ timers # <<>>
  /\ successMessage' = ""
  /\ formData' = resetForm(Head(timers).lsc)
  /\ currentStep' = 1
  /\ editMode' = FALSE
  /\ editIndex' = <<>>
  /\ errors' = EmptyMap
  /\ timers' = Tail(timers)
  /\ PincodeEffect(formData, formData')
  /\ UNCHANGED <<detailVars, isSubmitting, showDataModal, loading, toast,
                 lastSubmittedCategory, listVars, serverVars, submits, fetches,
                 finished, saved, response>>


(***************************************************************************)
(* The details view.                                                       *)
(***************************************************************************)
\* a fetchShops call suspended at await getShops(): where it was called from,
\* the criteria its closure holds, the list the service has answered with
\* (<<>> until it has) and, for handleDelete, the id being deleted
FetchCall(kind, filt, id) ==
  [kind |-> kind, filt |-> filt, data |-> <<>>, id |-> id]

\* the Show Details button of the navigation bar: handleShowDetails up to
\* await fetchShops()
handleShowDetails ==
  /\ FormReachable
  /\ budget.details > 0
  /\ loading' = TRUE
  /\ fetches' = Append(fetches, FetchCall("details", debounced, NullId))
  /\ budget' = [budget EXCEPT !.details = @ - 1]
  /\ UNCHANGED <<detailVars, formVars, isSubmitting, successMessage,
                 showDataModal, toast, lastSubmittedCategory, listVars,
                 serverVars, submits, lookups, timers, finished, saved, response>>

\* GET /api/shops without query parameters: the service reads the collection;
\* the answer travels back on its own
FetchServed(i) ==
  /\ i \in DOMAIN fetches
  /\ fetches[i].data = <<>>
  /\ fetches' = [fetches EXCEPT ![i].data = <<store>>]
  /\ UNCHANGED <<detailVars, formVars, viewVars, listVars, serverVars, submits,
                 lookups, timers, budget, finished, saved, response>>

\* a fetchShops call completes with its answer, or fails on the network.  For
\* handleShowDetails the handler goes on to open the view and leave edit
\* mode, and the effect on [showDataModal, fetchShops] starts the next
\* fetchShops; for handleDelete the finally block drops the id
FetchResponse(i, net) ==
  /\ i \in DOMAIN fetches
  /\ net = "ok" => fetches[i].data # <<>>
  /\ LET call == fetches[i]
         opens == call.kind = "details" /\ ~showDataModal
     IN  /\ IF net = "ok"
            THEN /\ retailers' = call.data[1]
                 /\ filteredData' =
                      FilteredAfterFetch(call.data[1], call.filt, debounced)
                 /\ UNCHANGED toast
            ELSE /\ toast' = showToast(<<"Failed to fetch retailer data">>,
                                       "error")
                 /\ UNCHANGED <<retailers, filteredData>>
         /\ showDataModal' = (showDataModal \/ call.kind = "details")
         /\ editMode' = IF call.kind = "details" THEN FALSE ELSE editMode
         /\ loading' = opens
         /\ fetches' = IF opens
                       THEN Append(RemoveAt(fetches, i),
                                   FetchCall("effect", debounced, NullId))
                       ELSE RemoveAt(fetches, i)
         /\ deletingIds' = IF call.kind = "delete"
                           THEN deletingIds \ {call.id} ELSE deletingIds
  /\ UNCHANGED <<filters, pending, deletes, formData, errors, currentStep,
                 editIndex, isSubmitting, successMessage, lastSubmittedCategory,
                 debounced, serverVars, submits, lookups, timers, budget,
                 finished, saved, response>>

\* the close button of the details view
closeModal ==
  /\ MainView
  /\ showDataModal
  /\ showDataModal' = FALSE
  /\ UNCHANGED <<detailVars, formVars, isSubmitting, successMessage, loading, toast,
                 lastSubmittedCategory, listVars, serverVars, flightVars,
                 budget, finished, saved, response>>

\* the draft handleEdit stores
EditedForm(shop, category) ==
  [shop EXCEPT !.businessCategory = Or(shop.businessCategory, Or(category, <<>>)),
               !.ownerName = Or(shop.ownerName, <<>>)]

\* the Edit button of a listed record (the list is rendered when not loading)
handleEdit(k) ==
  /\ MainView
  /\ showDataModal
  /\ ~loading
  /\ k \in DOMAIN filteredData
  /\ filteredData[k]._id \notin deletingIds
  /\ editMode' = TRUE
  /\ editIndex' = <<filteredData[k]>>
  /\ formData' = EditedForm(filteredData[k], lastSubmittedCategory)
  /\ currentStep' = 1
  /\ showDataModal' = FALSE
  /\ PincodeEffect(formData, formData')
  /\ UNCHANGED <<detailVars, errors, isSubmitting, successMessage, loading, toast,
                 lastSubmittedCategory, listVars, serverVars, submits, fetches,
                 timers, finished, saved, response>>

\* a filter input of the details view changes: useDebounce clears the field's
\* timer and starts a new one
setFilter(field, value) ==
  /\ MainView
  /\ showDataModal
  /\ value # filters[field]
  /\ budget.filters > 0
  /\ filters' = [filters EXCEPT ![field] = value]
  /\ pending' = pending \cup {field}
  /\ budget' = [budget EXCEPT !.filters = @ - 1]
  /\ UNCHANGED <<deletingIds, deletes, formVars, viewVars, listVars,
                 serverVars, flightVars, finished, saved, response>>

\* the debounce timer of a field expires: setDebouncedValue(value).  When the
\* criterion changes, the recomputation effect runs and fetchShops is a new
\* callback, on which the effect on [showDataModal, fetchShops] runs
debounceExpires(field) ==
  /\ field \in pending
  /\ pending' = pending \ {field}
  /\ debounced' = [debounced EXCEPT ![field] = filters[field]]
  /\ IF debounced' # debounced
     THEN /\ filteredData' = IF Len(retailers) > 0
                             THEN applyLocalFilters(retailers, debounced')
                             ELSE filteredData
          /\ IF showDataModal
             THEN /\ loading' = TRUE
                  /\ fetches' = Append(fetches,
                                       FetchCall("filter", debounced', NullId))
             ELSE UNCHANGED <<loading, fetches>>
     ELSE UNCHANGED <<filteredData, loading, fetches>>
  /\ UNCHANGED <<filters, deletingIds, deletes, formVars, isSubmitting,
                 successMessage, showDataModal, toast, lastSubmittedCategory,
                 retailers, serverVars, submits, lookups, timers, budget,
                 finished, saved, response>>

\* a Delete button that stays enabled while its record is being deleted
handleDeleteEnabled(k) ==
  /\ MainView
  /\ showDataModal
  /\ ~loading
  /\ k \in DOMAIN filteredData
  /\ filteredData[k]._id # NullId
  /\ budget.deletes > 0
  /\ deletingIds' = deletingIds \cup {filteredData[k]._id}
  /\ deletes' = Append(deletes, [id |-> filteredData[k]._id, filt |-> debounced])
  /\ budget' = [budget EXCEPT !.deletes = @ - 1]
  /\ UNCHANGED <<filters, pending, formVars, viewVars, listVars, serverVars,
                 flightVars, finished, saved, response>>

\* the Delete button of a listed record, confirmed: handleDelete up to
\* await deleteShop(id)
handleDelete(k) ==
  /\ MainView
  /\ showDataModal
  /\ ~loading
  /\ k \in DOMAIN filteredData
  /\ filteredData[k]._id # NullId
  /\ filteredData[k]._id \notin deletingIds
  /\ budget.deletes > 0
  /\ deletingIds' = deletingIds \cup {filteredData[k]._id}
  /\ deletes' = Append(deletes, [id |-> filteredData[k]._id, filt |-> debounced])
  /\ budget' = [budget EXCEPT !.deletes = @ - 1]
  /\ UNCHANGED <<filters, pending, formVars, viewVars, listVars, serverVars,
                 flightVars, finished, saved, response>>

\* the delete request is answered (or fails on the network): handleDelete
\* runs on to await fetchShops(), or through catch and finally
DeleteResponse(i, net) ==
  /\ i \in DOMAIN deletes
  /\ LET call == deletes[i]
         res == IF net = "error" THEN [ok |-> FALSE, store |-> store]
                ELSE ServerDelete(call.id, store)
     IN  /\ store' = res.store
         /\ deletes' = RemoveAt(deletes, i)
         /\ IF res.ok
            THEN /\ toast' = showToast(<<"Retailer deleted successfully!">>,
                                       "success")
                 /\ loading' = TRUE
                 /\ fetches' = Append(fetches,
                                      FetchCall("delete", call.filt, call.id))
                 /\ UNCHANGED deletingIds
            ELSE /\ toast' = showToast(
                      <<IF net = "error" THEN "Failed to fetch"
                        ELSE "Failed to delete shop">>, "error")
                 /\ deletingIds' = deletingIds \ {call.id}
                 /\ UNCHANGED <<loading, fetches>>
  /\ UNCHANGED <<filters, pending, formVars, isSubmitting, successMessage,
                 showDataModal, lastSubmittedCategory, listVars, nextId,
                 submits, lookups, timers, budget, finished, saved, response>>

(***************************************************************************)
(* The exports of the details view.                                        *)
(***************************************************************************)
NA == <<"N", "/", "A">>

\* the row object of a record with the values as they are stored
ExcelRowAsStored(shop) ==
  << <<"Business Category", shop.businessCategory>>,
     <<"Owner Name", shop.ownerName>>,
     <<"Shop Name", shop.shopName>>,
     <<"Phone Number", shop.shopPhone>>,
     <<"Email", shop.email>>,
     <<"Website", shop.website>>,
     <<"Address", shop.address.street>>,
     <<"PIN Code", shop.address.pincode>>,
     <<"Village/Colony", shop.address.village>>,
     <<"Taluka", shop.address.taluka>>,
     <<"District", shop.address.district>>,
     <<"State", shop.address.state>>,
     <<"Country", shop.address.country>> >>

\* the object data.map builds for a record in exportToExcel: the keys in the
\* order they are written, each value || "N/A"
ExcelRow(shop) ==
  << <<"Business Category", Or(shop.businessCategory, NA)>>,
     <<"Owner Name", Or(shop.ownerName, NA)>>,
     <<"Shop Name", Or(shop.shopName, NA)>>,
     <<"Phone Number", Or(shop.shopPhone, NA)>>,
     <<"Email", Or(shop.email, NA)>>,
     <<"Website", Or(shop.website, NA)>>,
     <<"Address", Or(shop.address.street, NA)>>,
     <<"PIN Code", Or(shop.address.pincode, NA)>>,
     <<"Village/Colony", Or(shop.address.village, NA)>>,
     <<"Taluka", Or(shop.address.taluka, NA)>>,
     <<"District", Or(shop.address.district, NA)>>,
     <<"State", Or(shop.address.state, NA)>>,
     <<"Country", Or(shop.address.country, NA)>> >>

\* utils.json_to_sheet(objects) called without a header option: the column
\* names are the keys of the objects (here every object has the keys of the
\* first), written as the first row when there are any, and one row of
\* values follows per object
json_to_sheet(objects) ==
  LET header == IF objects = <<>> THEN <<>>
                ELSE [j \in DOMAIN objects[1] |-> objects[1][j][1]]
  IN  IF header = <<>> THEN <<>>
      ELSE <<header>> \o
           [i \in DOMAIN objects |-> [j \in DOMAIN header |-> objects[i][j][2]]]

\* the Export Excel button: exportToExcel(filteredData) up to saveAs
exportToExcel ==
  /\ MainView
  /\ showDataModal
  /\ saved' = << [ name |-> "shops.xlsx",
                   content |-> json_to_sheet(
                     [i \in DOMAIN filteredData |-> ExcelRow(filteredData[i])]) ] >>
  /\ UNCHANGED <<formVars, viewVars, listVars, serverVars, flightVars,
                 detailVars, budget, finished, response>>

\* the Address line of a record's section of the document
AddressLine(a) ==
  a.street
    \o (IF a.village # <<>> THEN <<",", " ">> \o a.village ELSE <<>>)
    \o (IF a.taluka # <<>> THEN <<",", " ">> \o a.taluka ELSE <<>>)
    \o <<",", " ">> \o Or(a.district, NA)
    \o <<",", " ">> \o Or(a.state, NA)
    \o <<",", " ">> \o Or(a.pincode, NA)
    \o <<",", " ">> \o Or(a.country, NA)

\* the View of a record in MyDocument
ShopSection(shop) ==
  [ kind |-> "shopSection",
    shopName |-> Or(shop.shopName, NA),
    owner |-> Or(shop.ownerName, NA),
    category |-> Or(shop.businessCategory, NA),
    phone |-> Or(shop.shopPhone, NA),
    email |-> Or(shop.email, NA),
    website |-> Or(shop.website, NA),
    address |-> AddressLine(shop.address) ]

\* MyDocument: one Page element with the title and either the sections or
\* the notice
MyDocument(data) ==
  << [ title |-> "Retailer Data",
       body |-> IF Len(data) > 0
                THEN [i \in DOMAIN data |-> ShopSection(data[i])]
                ELSE << [kind |-> "text", text |-> "No data available."] >> ] >>

\* the Export PDF button: exportToPDF(filteredData) through saveAs
exportToPDF ==
  /\ MainView
  /\ showDataModal
  /\ saved' = << [name |-> "shops.pdf", content |-> MyDocument(filteredData)] >>
  /\ UNCHANGED <<formVars, viewVars, listVars, serverVars, flightVars,
                 detailVars, budget, finished, response>>

\* the Toast's own timer, or its close button; the Toast is mounted in the
\* main view only
hideToast ==
  /\ MainView
  /\ toast.show
  /\ toast' = NoToast
  /\ UNCHANGED <<detailVars, formVars, isSubmitting, successMessage, showDataModal, loading,
                 lastSubmittedCategory, listVars, serverVars, flightVars,
                 budget, finished, saved, response>>


(***************************************************************************)
(* The address lookup.                                                     *)
(***************************************************************************)
\* postOfficeData of a response of the primary provider: <<>> stands for null
PrimaryData(resp) ==
  IF Len(resp.body) > 0 /\ resp.body[1].Status = "Success"
     /\ Len(resp.body[1].PostOffice) > 0
  THEN <<resp.body[1].PostOffice[1]>> ELSE <<>>

\* postOfficeData of the secondary provider read on the success flag alone
SecondaryDataOnFlag(resp) ==
  IF resp.body.success
  THEN << [State |-> <<>>, District |-> <<>>, Block |-> <<>>, Name |-> <<>>] >>
  ELSE <<>>

\* postOfficeData of a response of the secondary provider
SecondaryData(resp) ==
  IF resp.body.success /\ resp.body.data # <<>>
  THEN LET d == resp.body.data[1]
       IN  << [State |-> d.state, District |-> d.district,
               Block |-> Or(d.block, d.taluk), Name |-> Or(d.village, d.area)] >>
  ELSE <<>>

\* what the try block of fetchPincodeData gets out of a response: the network
\* error and the non-success HTTP status throw before the body is read
PostOfficeData(url, resp) ==
  IF resp.net = "error" \/ ~resp.ok THEN <<>>
  ELSE IF url = PrimaryUrl THEN PrimaryData(resp) ELSE SecondaryData(resp)

\* the address a merge without ...prev.address would store
ReplacedAddress(address, po) ==
  [ street |-> <<>>, pincode |-> <<>>, country |-> <<>>,
    village |-> capitalizeWords(Or(po.Name, Or(address.village, <<>>))),
    taluka |-> capitalizeWords(Or(po.Block, Or(address.taluka, <<>>))),
    district |-> capitalizeWords(Or(po.District, Or(address.district, <<>>))),
    state |-> capitalizeWords(Or(po.State, Or(address.state, <<>>))) ]

\* the address setFormData stores on a successful lookup
MergedAddress(address, po) ==
  [address EXCEPT
     !.village = capitalizeWords(Or(po.Name, Or(address.village, <<>>))),
     !.taluka = capitalizeWords(Or(po.Block, Or(address.taluka, <<>>))),
     !.district = capitalizeWords(Or(po.District, Or(address.district, <<>>))),
     !.state = capitalizeWords(Or(po.State, Or(address.state, <<>>)))]

UrlOf(call) == IF call.retries > 0 THEN PrimaryUrl ELSE SecondaryUrl

\* a fallback call that keeps the retries it was given
RetryCallUncounted(call) ==
  [pincode |-> call.pincode, retries |-> call.retries,
   log |-> Append(call.log, <<UrlOf(call), call.pincode>>)]

\* return fetchPincodeData('https://api.apitier.com/v1/pincode/' + pincode, 0)
RetryCall(call) ==
  [pincode |-> call.pincode, retries |-> 0,
   log |-> Append(call.log, <<SecondaryUrl, call.pincode>>)]

\* a provider answers (or the request fails): fetchPincodeData runs from the
\* await to its return, or to the fetch of the fallback call
LookupResponse(i, resp) ==
  /\ i \in DOMAIN lookups
  /\ LET call == lookups[i]
         po == PostOfficeData(UrlOf(call), resp)
     IN  IF po # <<>>
         THEN /\ formData' = [formData EXCEPT
                                !.address = MergedAddress(@, po[1])]
              /\ toast' = showToast(
                   <<"Location updated for PIN ", call.pincode, "!">>, "success")
              /\ lookups' = RemoveAt(lookups, i)
              /\ finished' = [res |-> "updated", log |-> call.log]
         ELSE IF call.retries > 0
         THEN /\ lookups' = [lookups EXCEPT ![i] = RetryCall(call)]
              /\ UNCHANGED <<formData, toast, finished, saved, response>>
         ELSE /\ toast' = showToast(
                   <<"Failed to fetch for PIN ", call.pincode,
                     ". Enter manually.">>, "error")
              /\ lookups' = RemoveAt(lookups, i)
              /\ finished' = [res |-> "failed", log |-> call.log]
              /\ UNCHANGED formData
  /\ UNCHANGED <<saved, response, detailVars, errors, currentStep, editMode, editIndex, isSubmitting,
                 successMessage, showDataModal, loading, lastSubmittedCategory,
                 listVars, serverVars, submits, fetches, timers, budget>>

(***************************************************************************)
(* Inputs: the values the user types, the records already in the store and *)
(* the answers of the providers.                                           *)
(***************************************************************************)
OwnerA == <<"a", " ", "b">>
ShopX == <<"s", "x">>
PhoneA == <<"9","8","7","6","5","4","3","2","1","0">>
PhoneShort == <<"9","8","7","6","5">>
EmailA == <<"a", "@", "b", ".", "c">>
EmailNoDot == <<"a", "@", "b">>
EmailSpaced == <<"a", " ", "b", "@", "c", ".", "d">>
SiteA == <<"w", ".", "x">>
StreetA == <<"m", "g">>
PinA == <<"4","1","1","0","0","1">>
PinB == <<"5","6","0","0","0","1">>
PinShort == <<"4","1","1">>
PinAlpha == <<"4","1","1","0","0","x">>
StateA == <<"m", "h">>
Blank == <<" ">>

\* a record of an earlier session
Shop1 ==
  [ _id |-> 1,
    businessCategory |-> businessCategories[3],
    ownerName |-> <<"C", " ", "D">>, shopName |-> <<"S", "y">>,
    shopPhone |-> PhoneA, email |-> <<"c", "@", "d", ".", "e">>,
    website |-> <<>>,
    address |-> [ street |-> <<"H", "k">>, pincode |-> PinB,
                  village |-> <<>>, taluka |-> <<>>, district |-> <<>>,
                  state |-> <<"K", "a">>, country |-> India ] ]

\* a record stored through the service's API by another client: nothing on
\* that path puts its fields in title case
Shop2 ==
  [ _id |-> 2,
    businessCategory |-> lower(businessCategories[3]),
    ownerName |-> <<"e", "f">>, shopName |-> <<"t", "z">>,
    shopPhone |-> PhoneA, email |-> <<"e", "@", "f", ".", "g">>,
    website |-> <<>>,
    address |-> [ street |-> <<"r", "d">>, pincode |-> PinA,
                  village |-> <<"k", "t">>, taluka |-> <<>>, district |-> <<>>,
                  state |-> <<"T", "n">>, country |-> India ] ]

\* a record entered through the form
Shop3 ==
  [ _id |-> 3,
    businessCategory |-> businessCategories[2],
    ownerName |-> <<"G", " ", "H">>, shopName |-> <<"U", "v">>,
    shopPhone |-> PhoneA, email |-> <<"g", "@", "h", ".", "i">>,
    website |-> <<>>,
    address |-> [ street |-> <<"L", "n">>, pincode |-> PinA,
                  village |-> <<"S", "n">>, taluka |-> <<"H", "v">>,
                  district |-> <<"P", "n">>, state |-> <<"K", "a">>,
                  country |-> India ] ]

\* a record stored through the service's API whose phone and pincode the
\* form would not accept; its other fields are what the form stores
Shop4 ==
  [ _id |-> Shop3._id + 1,
    businessCategory |-> processedValue(<<"businessCategory">>, businessCategories[2]),
    ownerName |-> processedValue(<<"ownerName">>, OwnerA),
    shopName |-> processedValue(<<"shopName">>, ShopX),
    shopPhone |-> PhoneShort,
    email |-> processedValue(<<"email">>, EmailA),
    website |-> <<>>,
    address |-> [ street |-> processedValue(<<"address", "street">>, StreetA),
                  pincode |-> PinShort,
                  village |-> <<>>, taluka |-> <<>>, district |-> <<>>,
                  state |-> processedValue(<<"address", "state">>, StateA),
                  country |-> India ] ]

\* the lists of records a fetch can have stored: every record has its own
\* _id
RecordLists ==
  {list \in UNION {[1..n -> {Shop1, Shop2, Shop3}] : n \in 0..MaxRecords} :
     \A i, j \in DOMAIN list : i # j => list[i]._id # list[j]._id}

\* the criteria the filter inputs can hold: a listed category, parts of the
\* address fields in either case
CriteriaChoices ==
  [ category : {<<>>, businessCategories[2], businessCategories[3]},
    state : {<<>>, <<"k", "a">>, <<"n">>},
    district : {<<>>, <<"p">>},
    taluka : {<<>>, <<"H">>},
    village : {<<>>, <<"K">>} ]

PostOfficeFull ==
  [Name |-> <<"s", "n">>, Block |-> <<"h", "v">>, District |-> <<"p", "n">>,
   State |-> <<"m", "p">>]

PostOfficePartial ==
  [Name |-> <<>>, Block |-> <<>>, District |-> <<"p", "n">>, State |-> <<>>]

PrimaryFull ==
  [net |-> "ok", ok |-> TRUE,
   body |-> << [Status |-> "Success", PostOffice |-> <<PostOfficeFull>>] >>]

SecondaryFull ==
  [net |-> "ok", ok |-> TRUE,
   body |-> [success |-> TRUE,
             data |-> << [state |-> <<"t", "n">>, district |-> <<>>,
                          block |-> <<>>, taluk |-> <<"h", "v">>,
                          village |-> <<>>, area |-> <<"s", "n">>] >>]]

PrimaryResponses ==
  { [net |-> "error", ok |-> FALSE, body |-> <<>>],
    [net |-> "ok", ok |-> FALSE, body |-> <<>>],
    [net |-> "ok", ok |-> TRUE,
     body |-> << [Status |-> "Error", PostOffice |-> <<>>] >>],
    [net |-> "ok", ok |-> TRUE,
     body |-> << [Status |-> "Success", PostOffice |-> <<>>] >>],
    PrimaryFull,
    [net |-> "ok", ok |-> TRUE,
     body |-> << [Status |-> "Success",
                  PostOffice |-> <<PostOfficePartial>>] >>] }

SecondaryResponses ==
  { [net |-> "error", ok |-> FALSE, body |-> [success |-> FALSE, data |-> <<>>]],
    [net |-> "ok", ok |-> FALSE, body |-> [success |-> FALSE, data |-> <<>>]],
    [net |-> "ok", ok |-> TRUE, body |-> [success |-> FALSE, data |-> <<>>]],
    [net |-> "ok", ok |-> TRUE, body |-> [success |-> TRUE, data |-> <<>>]],
    SecondaryFull }

\* the answers a provider can give to a call
ResponsesFor(call) ==
  IF call.retries > 0 THEN PrimaryResponses ELSE SecondaryResponses

\* one failure and one success per provider
FewResponsesFor(call) ==
  IF call.retries > 0
  THEN {r \in PrimaryResponses : r.net = "error" \/ r = PrimaryFull}
  ELSE {r \in SecondaryResponses : r.net = "error" \/ r = SecondaryFull}

\* the providers are down: every request fails on the network
FailedResponsesFor(call) == {r \in ResponsesFor(call) : r.net = "error"}

\* what the user types into each field: one value that validates
TypedValid(name) ==
  CASE name = <<"businessCategory">> -> {businessCategories[2]}
    [] name = <<"ownerName">> -> {OwnerA}
    [] name = <<"shopName">> -> {ShopX}
    [] name = <<"shopPhone">> -> {PhoneA}
    [] name = <<"email">> -> {EmailA}
    [] name = <<"address", "street">> -> {StreetA}
    [] name = <<"address", "pincode">> -> {PinA}
    [] name = <<"address", "state">> -> {StateA}
    [] OTHER -> {}

\* step 1 with values that fail validation too
TypedStep1(name) ==
  CASE name = <<"businessCategory">> ->
         {<<>>, businessCategories[1], businessCategories[2]}
    [] name = <<"ownerName">> -> {<<>>, OwnerA, Blank}
    [] name = <<"shopName">> -> {<<>>, ShopX, Blank}
    [] name = <<"shopPhone">> -> {<<>>, PhoneA, PhoneShort}
    [] name = <<"email">> -> {<<>>, EmailA, EmailNoDot, EmailSpaced}
    [] name = <<"website">> -> {<<>>, SiteA}
    [] OTHER -> {}

\* step 2 with values that fail validation too
TypedStep2(name) ==
  CASE name = <<"address", "street">> -> {StreetA, Blank}
    [] name = <<"address", "pincode">> -> {PinA, PinShort, PinAlpha}
    [] name = <<"address", "state">> -> {StateA, Blank}
    [] OTHER -> TypedValid(name)

\* pincodes that start a lookup and pincodes that do not
TypedPincodes(name) ==
  CASE name = <<"address", "pincode">> -> {<<>>, PinA, PinB, PinShort, PinAlpha}
    [] name = <<"address", "village">> -> {<<"k", "t">>}
    [] OTHER -> TypedValid(name)

\* the user corrects the name and the street of a loaded record
TypedEdit(name) ==
  CASE name = <<"shopName">> -> {ShopX}
    [] name = <<"address", "street">> -> {StreetA}
    [] OTHER -> {}

\* what the user types as it comes from the keyboard: lower case, mixed case,
\* several words, a pincode that starts no lookup
TypedRaw(name) ==
  CASE name = <<"businessCategory">> -> {businessCategories[2]}
    [] name = <<"ownerName">> -> {<<>>, OwnerA, <<"a", "B", " ", "c">>}
    [] name = <<"shopName">> -> {ShopX}
    [] name = <<"shopPhone">> -> {PhoneA}
    [] name = <<"email">> -> {EmailA}
    [] name = <<"website">> -> {SiteA}
    [] name = <<"address", "street">> -> {StreetA}
    [] name = <<"address", "pincode">> -> {PinShort}
    [] name = <<"address", "village">> -> {<<"k", "t">>}
    [] name = <<"address", "state">> -> {StateA}
    [] OTHER -> {}

\* step 2 retyped with values that fail validation, and no pincode that
\* starts a lookup
TypedBack(name) ==
  CASE name = <<"address", "street">> -> {StreetA, Blank}
    [] name = <<"address", "pincode">> -> {PinShort}
    [] name = <<"address", "state">> -> {StateA, Blank}
    [] OTHER -> TypedValid(name)

\* both steps with a value that validates and one that does not
TypedPaths(name) ==
  CASE name = <<"shopPhone">> -> {PhoneA, PhoneShort}
    [] name = <<"address", "pincode">> -> {PinA, PinShort}
    [] OTHER -> TypedValid(name)

\* the required fields handleKeyPress walks before it focuses a field
RequiredBefore(name) ==
  CASE name = <<"businessCategory">> -> {}
    [] name = <<"ownerName">> -> {<<"businessCategory">>}
    [] name = <<"shopName">> -> {<<"businessCategory">>, <<"ownerName">>}
    [] name = <<"shopPhone">> ->
         {<<"businessCategory">>, <<"ownerName">>, <<"shopName">>}
    [] name = <<"email">> ->
         {<<"businessCategory">>, <<"ownerName">>, <<"shopName">>,
          <<"shopPhone">>}
    [] name = <<"website">> ->
         {<<"businessCategory">>, <<"ownerName">>, <<"shopName">>,
          <<"shopPhone">>, <<"email">>}
    [] name = <<"address", "street">> -> {}
    [] name = <<"address", "pincode">> -> {<<"address", "street">>}
    [] OTHER -> {<<"address", "street">>, <<"address", "pincode">>}

\* the user fills a step from the top, as the Enter key walks it
InOrder(name) == \A n \in RequiredBefore(name) : FieldValue(formData, n) # <<>>

(***************************************************************************)
(* The specifications.                                                     *)
(***************************************************************************)
InitFrom(allowed, records, list, criteria) ==
  /\ formData = EmptyForm(<<>>)
  /\ errors = EmptyMap
  /\ currentStep = 1
  /\ isSubmitting = FALSE
  /\ successMessage = ""
  /\ showDataModal = FALSE
  /\ retailers = list
  /\ filteredData = <<>>
  /\ debounced = criteria
  /\ editMode = FALSE
  /\ editIndex = <<>>
  /\ loading = FALSE
  /\ lastSubmittedCategory = <<>>
  /\ toast = NoToast
  /\ store = records
  /\ nextId = Len(records) + 1
  /\ submits = <<>>
  /\ fetches = <<>>
  /\ lookups = <<>>
  /\ timers = <<>>
  /\ filters = criteria
  /\ pending = {}
  /\ deletingIds = {}
  /\ deletes = <<>>
  /\ budget = allowed
  /\ finished = [res |-> "none", log |-> <<>>]
  /\ saved = <<>>
  /\ response = <<>>

\* the state after construction, with one record in the directory
InitWith(allowed) == InitFrom(allowed, <<Shop1>>, <<>>, NoFilters)

\* the provider has answered before the user's next key
Idle == lookups = <<>>

\* the keys of the form
Keys ==
  \/ \E trigger \in {"button", "enter", "ctrlN"} : nextStep(trigger)
  \/ prevStep
  \/ \E trigger \in {"button", "enter", "ctrlS"} : handleSubmit(trigger)

\* the requests of handleSubmit are answered and its timers fire
Answers ==
  \/ \E i \in DOMAIN submits, net \in {"ok", "error"} : MutationResponse(i, net)
  \/ \E i \in DOMAIN submits, net \in {"ok", "error"} : RefetchResponse(i, net)
  \/ ResetTimer
  \/ hideToast

\* the details view
Details ==
  \/ handleShowDetails
  \/ \E i \in DOMAIN fetches : FetchServed(i)
  \/ \E i \in DOMAIN fetches, net \in {"ok", "error"} : FetchResponse(i, net)
  \/ closeModal
  \/ \E k \in DOMAIN filteredData : handleEdit(k)

\* Spec: the life of a submit, with a user who types values that validate,
\* waits for the lookup to end and finds the providers down
Init ==
  InitWith([submits |-> MaxSubmits, lookups |-> MaxLookups, details |-> 0])

Next ==
  \/ \E name \in Step1Fields \cup Step2Fields :
        \E value \in TypedValid(name) :
           Idle /\ InOrder(name) /\ handleChange(name, value)
  \/ Idle /\ Keys
  \/ Answers
  \/ \E i \in DOMAIN lookups :
        \E resp \in FailedResponsesFor(lookups[i]) : LookupResponse(i, resp)

Spec == Init /\ [][Next]_vars

\* SpecStep1: the first step, with every kind of value
InitStep1 == InitWith([submits |-> 0, lookups |-> 0, details |-> 0])

NextStep1 ==
  \/ \E name \in Step1Fields :
        \E value \in TypedStep1(name) : handleChange(name, value)
  \/ \E trigger \in {"button", "enter", "ctrlN"} : nextStep(trigger)
  \/ prevStep

SpecStep1 == InitStep1 /\ [][NextStep1]_vars

\* SpecStep2: the second step filled from the top with every kind of value,
\* by a user who waits for the lookup to end and finds the providers down
InitStep2 ==
  InitWith([submits |-> Step2Submits, lookups |-> Step2Lookups, details |-> 0])

NextStep2 ==
  \/ \E name \in Step1Fields \cup Step2Fields :
        \E value \in TypedStep2(name) :
           Idle /\ InOrder(name) /\ handleChange(name, value)
  \/ Idle /\ Keys
  \/ Answers
  \/ \E i \in DOMAIN lookups :
        \E resp \in FailedResponsesFor(lookups[i]) : LookupResponse(i, resp)

SpecStep2 == InitStep2 /\ [][NextStep2]_vars

\* SpecEdit: records are loaded from the details view
InitEdit ==
  InitWith([submits |-> EditSubmits, lookups |-> EditLookups,
            details |-> EditDetails])

NextEdit ==
  \/ \E name \in Step1Fields \cup Step2Fields :
        \E value \in TypedEdit(name) : InOrder(name) /\ handleChange(name, value)
  \/ Keys
  \/ Answers
  \/ Details
  \/ \E i \in DOMAIN lookups :
        \E resp \in FewResponsesFor(lookups[i]) : LookupResponse(i, resp)

SpecEdit == InitEdit /\ [][NextEdit]_vars

\* SpecLookup: the address lookup, with every kind of pincode and answer, up
\* to the requests of handleSubmit, which the server leaves unanswered
InitLookup ==
  InitWith([submits |-> LookupSubmits, lookups |-> LookupLookups,
            details |-> 0])

NextLookup ==
  \/ \E name \in Step1Fields \cup Step2Fields :
        \E value \in TypedPincodes(name) :
           InOrder(name) /\ handleChange(name, value)
  \/ Keys
  \/ hideToast
  \/ \E i \in DOMAIN lookups :
        \E resp \in ResponsesFor(lookups[i]) : LookupResponse(i, resp)

SpecLookup == InitLookup /\ [][NextLookup]_vars


\* the recomputation effect on [retailers, debounced criteria]
recompute ==
  /\ Len(retailers) > 0
  /\ filteredData' = applyLocalFilters(retailers, debounced)
  /\ UNCHANGED <<detailVars, formVars, viewVars, retailers, debounced,
                 serverVars, flightVars, budget, finished, saved, response>>

\* SpecType: both steps filled in any order with values as they are typed
InitType == InitWith([submits |-> 0, lookups |-> 0, details |-> 0])

NextType ==
  \/ \E name \in Step1Fields \cup Step2Fields :
        \E value \in TypedRaw(name) : handleChange(name, value)
  \/ \E trigger \in {"button", "enter", "ctrlN"} : nextStep(trigger)
  \/ prevStep

SpecType == InitType /\ [][NextType]_vars

\* SpecBack: the way forth and back between the steps, with a new draft and
\* with a loaded record, retyped in any order; lookups stay unanswered
InitBack ==
  InitWith([submits |-> 0, lookups |-> BackLookups, details |-> BackDetails])

NextBack ==
  \/ \E name \in Step1Fields \cup Step2Fields :
        \E value \in TypedBack(name) : handleChange(name, value)
  \/ \E trigger \in {"button", "enter", "ctrlN"} : nextStep(trigger)
  \/ prevStep
  \/ handleShowDetails
  \/ \E i \in DOMAIN fetches : FetchServed(i)
  \/ \E i \in DOMAIN fetches : FetchResponse(i, "ok")
  \/ \E k \in DOMAIN filteredData : handleEdit(k)

SpecBack == InitBack /\ [][NextBack]_vars

\* filter input that keeps both records, one of them, or none
TypedExport(field) ==
  IF field = "category" THEN {<<>>, businessCategories[3]}
  ELSE IF field = "state" THEN {<<>>, <<"n">>, <<"x">>}
  ELSE {<<>>}

\* SpecExport: the details view over two stored records, filtered and
\* exported to both formats
InitExport ==
  InitFrom([submits |-> 0, lookups |-> 0, details |-> ExportDetails,
            filters |-> ExportFilters],
           <<Shop1, Shop2>>, <<>>, NoFilters)

NextExport ==
  \/ handleShowDetails
  \/ \E i \in DOMAIN fetches : FetchServed(i)
  \/ \E i \in DOMAIN fetches : FetchResponse(i, "ok")
  \/ \E field \in DOMAIN filters : \E value \in TypedExport(field) :
        setFilter(field, value)
  \/ \E field \in DOMAIN filters : debounceExpires(field)
  \/ exportToExcel
  \/ exportToPDF

SpecExport == InitExport /\ [][NextExport]_vars

\* the ids of the requests: of the three records, of no record, malformed
RequestIds == {Shop1._id, Shop2._id, Shop3._id, Shop3._id + 1, MalformedId}

\* SpecServer: PUT and DELETE requests on every collection of the records
InitServer ==
  \E records \in RecordLists :
     InitFrom([submits |-> 0, lookups |-> 0, details |-> 0],
              records, <<>>, NoFilters)

NextServer ==
  \/ \E id \in RequestIds : \E body \in {Shop1, Shop3} : putRequest(id, body)
  \/ \E id \in RequestIds : deleteRequest(id)

SpecServer == InitServer /\ [][NextServer]_vars

\* SpecPaths: every way to a submit: a new draft or a loaded record that
\* does not validate, the steps forth and back, the keyboard shortcuts,
\* lookups answered late, reset timers pending
InitPaths ==
  InitFrom([submits |-> PathSubmits, lookups |-> PathLookups,
            details |-> PathDetails],
           <<Shop4>>, <<>>, NoFilters)

NextPaths ==
  \/ \E name \in Step1Fields \cup Step2Fields :
        \E value \in TypedPaths(name) : InOrder(name) /\ handleChange(name, value)
  \/ Keys
  \/ \E i \in DOMAIN submits, net \in {"ok", "error"} : MutationResponse(i, net)
  \/ \E i \in DOMAIN submits : RefetchResponse(i, "ok")
  \/ ResetTimer
  \/ handleShowDetails
  \/ \E i \in DOMAIN fetches : FetchServed(i)
  \/ \E i \in DOMAIN fetches : FetchResponse(i, "ok")
  \/ \E k \in DOMAIN filteredData : handleEdit(k)
  \/ \E i \in DOMAIN lookups :
        \E resp \in FewResponsesFor(lookups[i]) : LookupResponse(i, resp)

SpecPaths == InitPaths /\ [][NextPaths]_vars

\* SpecAnswer: lookups started from a new draft or a loaded record are
\* answered in every way, at either step, with or without errors shown
InitAnswer ==
  InitFrom([submits |-> 0, lookups |-> AnswerLookups, details |-> AnswerDetails],
           <<Shop2>>, <<>>, NoFilters)

NextAnswer ==
  \/ \E name \in Step1Fields \cup Step2Fields :
        \E value \in TypedValid(name) : InOrder(name) /\ handleChange(name, value)
  \/ \E trigger \in {"button", "enter", "ctrlN"} : nextStep(trigger)
  \/ prevStep
  \/ handleShowDetails
  \/ \E i \in DOMAIN fetches : FetchServed(i)
  \/ \E i \in DOMAIN fetches : FetchResponse(i, "ok")
  \/ \E k \in DOMAIN filteredData : handleEdit(k)
  \/ \E i \in DOMAIN lookups :
        \E resp \in FewResponsesFor(lookups[i]) : LookupResponse(i, resp)

SpecAnswer == InitAnswer /\ [][NextAnswer]_vars

\* SpecDelete: the records of the details view are deleted, one delete
\* overlapping another, each request and each re-fetch succeeding or failing
InitDelete ==
  InitFrom([submits |-> 0, lookups |-> 0, details |-> DeleteDetails,
            filters |-> 0, deletes |-> DeleteDeletes],
           <<Shop1, Shop2>>, <<>>, NoFilters)

NextDelete ==
  \/ handleShowDetails
  \/ closeModal
  \/ \E i \in DOMAIN fetches : FetchServed(i)
  \/ \E i \in DOMAIN fetches : \E net \in {"ok", "error"} : FetchResponse(i, net)
  \/ \E k \in DOMAIN filteredData : handleDelete(k)
  \/ \E i \in DOMAIN deletes : \E net \in {"ok", "error"} : DeleteResponse(i, net)

SpecDelete == InitDelete /\ [][NextDelete]_vars

\* SpecFilter: the filter applied to every list of records under every
\* combination of criteria
InitFilter ==
  \E list \in RecordLists, criteria \in CriteriaChoices :
     InitFrom([submits |-> 0, lookups |-> 0, details |-> 0],
              <<Shop1>>, list, criteria)

NextFilter == recompute

SpecFilter == InitFilter /\ [][NextFilter]_vars

\* the values typed into a filter input of the details view
TypedFilter(field) ==
  IF field = "category" THEN {<<>>, businessCategories[3]}
  ELSE IF field = "state" THEN {<<>>, <<"k">>, <<"k", "a">>}
  ELSE {<<>>}

\* SpecList: the details view over two stored records: bursts of filter
\* input with the debounce timers, list fetches answered in any order, each
\* succeeding or failing
InitList ==
  InitFrom([submits |-> 0, lookups |-> 0, details |-> ListDetails,
            filters |-> ListFilters],
           <<Shop1, Shop2>>, <<>>, NoFilters)

NextList ==
  \/ handleShowDetails
  \/ \E i \in DOMAIN fetches : FetchServed(i)
  \/ \E i \in DOMAIN fetches : \E net \in {"ok", "error"} : FetchResponse(i, net)
  \/ \E field \in DOMAIN filters : \E value \in TypedFilter(field) :
        setFilter(field, value)
  \/ \E field \in DOMAIN filters : debounceExpires(field)

SpecList == InitList /\ [][NextList]_vars

\* SpecRace: the details view over two stored records: deletes and filter
\* changes, with the list fetches they start answered in any order, each
\* request succeeding or failing
InitRace ==
  InitFrom([submits |-> 0, lookups |-> 0, details |-> RaceDetails,
            filters |-> RaceFilters, deletes |-> RaceDeletes],
           <<Shop1, Shop2>>, <<>>, NoFilters)

NextRace ==
  \/ handleShowDetails
  \/ \E i \in DOMAIN fetches : FetchServed(i)
  \/ \E i \in DOMAIN fetches : \E net \in {"ok", "error"} : FetchResponse(i, net)
  \/ \E field \in DOMAIN filters : \E value \in TypedFilter(field) :
        setFilter(field, value)
  \/ \E field \in DOMAIN filters : debounceExpires(field)
  \/ \E k \in DOMAIN filteredData : handleDelete(k)
  \/ \E i \in DOMAIN deletes : \E net \in {"ok", "error"} : DeleteResponse(i, net)

SpecRace == InitRace /\ [][NextRace]_vars

\* SpecSettled: SpecRace with every request succeeding on the network
NextSettled ==
  \/ handleShowDetails
  \/ \E i \in DOMAIN fetches : FetchServed(i)
  \/ \E i \in DOMAIN fetches : FetchResponse(i, "ok")
  \/ \E field \in DOMAIN filters : \E value \in TypedFilter(field) :
        setFilter(field, value)
  \/ \E field \in DOMAIN filters : debounceExpires(field)
  \/ \E k \in DOMAIN filteredData : handleDelete(k)
  \/ \E i \in DOMAIN deletes : DeleteResponse(i, "ok")

SpecSettled == InitRace /\ [][NextSettled]_vars

\* SpecMerge: records of any origin are loaded from the details view and
\* their pincode is looked up, with every kind of answer
InitMerge ==
  InitFrom([submits |-> 0, lookups |-> MergeLookups, details |-> MergeDetails],
           <<Shop1, Shop2>>, <<>>, NoFilters)

NextMerge ==
  \/ \E name \in Step1Fields \cup Step2Fields :
        \E value \in TypedPincodes(name) : handleChange(name, value)
  \/ \E trigger \in {"button", "enter", "ctrlN"} : nextStep(trigger)
  \/ prevStep
  \/ handleShowDetails
  \/ \E i \in DOMAIN fetches : FetchServed(i)
  \/ \E i \in DOMAIN fetches : FetchResponse(i, "ok")
  \/ \E k \in DOMAIN filteredData : handleEdit(k)
  \/ \E i \in DOMAIN lookups :
        \E resp \in ResponsesFor(lookups[i]) : LookupResponse(i, resp)

SpecMerge == InitMerge /\ [][NextMerge]_vars

(***************************************************************************)
(* The claims.                                                             *)
(***************************************************************************)
\* the step-1 fields of a draft that fail validation, as the specification
\* states the rules
FailingStep1(fd) ==
  {k \in {"businessCategory", "ownerName", "shopName", "shopPhone", "email"} :
     CASE k = "businessCategory" -> fd.businessCategory = <<>>
       [] k = "ownerName" -> trim(fd.ownerName) = <<>>
       [] k = "shopName" -> trim(fd.shopName) = <<>>
       [] k = "shopPhone" -> ~IsDigits(fd.shopPhone, 10)
       [] k = "email" -> ~EmailShape(fd.email)}

\* C1: nextStep at step 1 moves to step 2 iff no step-1 field fails (category
\* non-empty, owner and shop name non-empty after trimming, phone of exactly
\* 10 digits, email of the shape local@domain.tld); otherwise the step and the
\* draft are unchanged and the error map holds exactly the failing fields.
C1_NextStepIffValid ==
  [][ (currentStep = 1 /\ \E trigger \in {"button", "enter", "ctrlN"} :
                             nextStep(trigger))
      => /\ (currentStep' = 2) <=> (FailingStep1(formData) = {})
         /\ formData' = formData
         /\ FailingStep1(formData) # {}
              => currentStep' = 1 /\ DOMAIN errors' = FailingStep1(formData)
    ]_vars


\* the create and update requests that are not answered yet
Outstanding(calls) ==
  LET waiting(call) == call.pc = "mutate" IN Len(SelectSeq(calls, waiting))

\* C2: submits of one form are strictly sequential: there is never more than
\* one create/update request outstanding, and no request is issued while an
\* earlier submit is unresolved or while the success display is showing.
C2_SubmitsSequential ==
  [][ /\ Outstanding(submits') <= 1
      /\ Len(submits') > Len(submits)
           => submits = <<>> /\ successMessage = ""
    ]_vars

\* a create/update request fails: the catch block of handleSubmit runs
MutationFails(i) ==
  /\ i \in DOMAIN submits
  /\ submits[i].pc = "mutate"
  /\ Len(submits') < Len(submits)
  /\ \E net \in {"ok", "error"} : MutationResponse(i, net)

\* C3: when the create/update request fails, an error notification is shown,
\* the form is at step 2 with the draft and the edit target as they were at
\* submit, and no later automatic event (the timer that submit scheduled)
\* discards the draft.
C3_DraftKeptAfterFailure ==
  [][ /\ \A i \in DOMAIN submits :
           MutationFails(i)
             => /\ toast'.show /\ toast'.type = "error"
                /\ currentStep' = 2
                /\ [formData' EXCEPT !.ownerName = trim(@)] = submits[i].shopData
                /\ (editIndex' # <<>>) = (submits[i].target # NullId)
      /\ (ResetTimer /\ Head(timers).after = "failure")
           => /\ formData' = formData
              /\ editIndex' = editIndex
              /\ currentStep' = currentStep
    ]_vars


\* the error keys of the step-2 fields of a draft that fail validation, as the
\* specification states the rules (the key of address.street is "address")
FailingStep2(fd) ==
  {k \in {"address", "pincode", "state"} :
     CASE k = "address" -> trim(fd.address.street) = <<>>
       [] k = "pincode" -> ~IsDigits(fd.address.pincode, 6)
       [] k = "state" -> trim(fd.address.state) = <<>>}

\* C4: every submit attempt (button, Enter, Ctrl+S) validates step 2: when the
\* street is empty after trimming, the pincode is not exactly 6 digits or the
\* state is empty after trimming, no request is issued, the form stays at
\* step 2 with the draft unchanged, the error map holds the failing fields,
\* the 'fix the errors' notification is shown and no reset is scheduled.
C4_InvalidSubmitRejected ==
  [][ ((\E trigger \in {"button", "enter", "ctrlS"} : handleSubmit(trigger))
       /\ FailingStep2(formData) # {})
      => /\ submits' = submits
         /\ currentStep' = 2
         /\ formData' = formData
         /\ DOMAIN errors' = FailingStep2(formData)
         /\ toast' = showToast(<<"Please fix the errors before submitting.">>,
                               "error")
         /\ timers' = timers
         /\ isSubmitting' = isSubmitting /\ loading' = loading
    ]_vars

\* a submit was rejected for its pincode alone: six characters, not all digits
C4_Witness ==
  /\ currentStep = 2
  /\ DOMAIN errors = {"pincode"}
  /\ toast.message = <<"Please fix the errors before submitting.">>
  /\ formData.address.pincode = PinAlpha
  /\ submits = <<>>


\* C5: a submit from the edit path issues an update, never a create: as long
\* as the draft is the one handleEdit loaded (it carries the record's id until
\* a reset replaces it), every request a submit sends is an update addressed
\* to that record's id, also when the details view was opened and closed in
\* between.
C5_EditSubmitsUpdate ==
  \A i \in DOMAIN submits :
     submits[i].shopData._id # NullId
       => submits[i].kind = "update"
          /\ submits[i].target = submits[i].shopData._id


\* handleSubmit ran through its try block and the timer it scheduled fires
SuccessReset == ResetTimer /\ Head(timers).after = "success"

\* handleSubmit's refetch ended: the submit has succeeded
SubmitSucceeds ==
  \E i \in DOMAIN submits, net \in {"ok", "error"} : RefetchResponse(i, net)

C7_ResetCategoryIsLatest ==
  [][ SuccessReset
        => formData'.businessCategory = store[Len(store)].businessCategory ]_vars


\* the user types a new pincode
PincodeTyped ==
  \E value \in TypedPincodes(<<"address", "pincode">>) :
     handleChange(<<"address", "pincode">>, value)

\* the fields a lookup resolves
Resolved(fd) ==
  <<fd.address.village, fd.address.taluka, fd.address.district, fd.address.state>>

\* C8: a lookup is started exactly in the steps that change address.pincode to
\* six digits; typing any other pincode issues no request and leaves village,
\* taluka, district and state as they were.
C8_LookupIffSixDigits ==
  [][ /\ (Len(lookups') > Len(lookups))
           <=> /\ formData'.address.pincode # formData.address.pincode
               /\ IsDigits(formData'.address.pincode, 6)
      /\ Len(lookups') > Len(lookups)
           => /\ lookups' = Append(lookups, lookups'[Len(lookups')])
              /\ lookups'[Len(lookups')].log
                   = << <<PrimaryUrl, formData'.address.pincode>> >>
      /\ (PincodeTyped /\ ~IsDigits(formData'.address.pincode, 6))
           => lookups' = lookups /\ Resolved(formData') = Resolved(formData) ]_vars

\* a lookup has resolved the address and the pincode was then cut short: the
\* resolved fields are still there
C8_Witness ==
  /\ finished.res = "updated"
  /\ formData.address.pincode = PinShort
  /\ formData.address.district # <<>>
  /\ lookups = <<>>

\* the primary attempt failed: network error, non-success HTTP status,
\* non-success status flag or empty result
PrimaryFailed(resp) ==
  \/ resp.net = "error"
  \/ ~resp.ok
  \/ resp.body = <<>>
  \/ resp.body[1].Status # "Success"
  \/ resp.body[1].PostOffice = <<>>

\* the requests of one trigger: the primary provider, then at most the
\* secondary one, with the pincode of the trigger
RequestsInOrder(log) ==
  /\ Len(log) \in 1..2
  /\ log[1][1] = PrimaryUrl
  /\ Len(log) = 2 => log[2] = <<SecondaryUrl, log[1][2]>>

\* C9: a trigger queries the secondary provider once, with the same pincode,
\* exactly when the primary attempt failed; after a primary success and after
\* the secondary answer no further request is made, so a trigger makes at most
\* two requests.
C9_SecondaryIffPrimaryFailed ==
  /\ [](/\ \A i \in DOMAIN lookups :
              RequestsInOrder(lookups[i].log)
              /\ lookups[i].log[1][2] = lookups[i].pincode
        /\ finished.res # "none" => RequestsInOrder(finished.log))
  /\ [][ \A i \in DOMAIN lookups :
           /\ \A resp \in PrimaryResponses :
                (Len(lookups[i].log) = 1 /\ LookupResponse(i, resp))
                  => IF PrimaryFailed(resp)
                     THEN /\ Len(lookups') = Len(lookups)
                          /\ lookups'[i].log =
                               Append(lookups[i].log,
                                      <<SecondaryUrl, lookups[i].pincode>>)
                     ELSE /\ lookups' = RemoveAt(lookups, i)
                          /\ finished' = [res |-> "updated",
                                          log |-> lookups[i].log]
           /\ \A resp \in SecondaryResponses :
                (Len(lookups[i].log) = 2 /\ LookupResponse(i, resp))
                  => /\ lookups' = RemoveAt(lookups, i)
                     /\ finished'.log = lookups[i].log ]_vars

\* the primary provider failed and the secondary one resolved the address
C9_Witness ==
  /\ finished.res = "updated"
  /\ Len(finished.log) = 2
  /\ formData.address.state = capitalizeWords(SecondaryFull.body.data[1].state)

\* the secondary attempt failed
SecondaryFailed(resp) ==
  \/ resp.net = "error"
  \/ ~resp.ok
  \/ ~resp.body.success
  \/ resp.body.data = <<>>

\* C10: when the secondary provider fails after the primary one, the draft,
\* the step and the error map are as they were, the error notification
\* "Failed to fetch for PIN ... Enter manually." is shown, and the Submit
\* button still submits a draft whose required fields are filled.
C10_BothFailKeepsForm ==
  /\ [][ \A i \in DOMAIN lookups :
           /\ \A resp \in PrimaryResponses :
                (Len(lookups[i].log) = 1 /\ PrimaryFailed(resp)
                 /\ LookupResponse(i, resp))
                  => formData' = formData /\ toast' = toast
           /\ \A resp \in SecondaryResponses :
                (Len(lookups[i].log) = 2 /\ SecondaryFailed(resp)
                 /\ LookupResponse(i, resp))
                  => /\ formData' = formData
                     /\ currentStep' = currentStep
                     /\ errors' = errors
                     /\ isSubmitting' = isSubmitting
                     /\ loading' = loading
                     /\ toast' = showToast(
                          <<"Failed to fetch for PIN ", lookups[i].pincode,
                            ". Enter manually.">>, "error")
                     /\ finished'.res = "failed" ]_vars
  /\ []((/\ finished.res = "failed"
         /\ currentStep = 2 /\ FormReachable /\ ~isSubmitting
         /\ FailingStep2(formData) = {}
         /\ budget.submits > 0)
        => ENABLED handleSubmit("button"))

\* both providers failed, the state was typed by hand and the draft was
\* submitted
C10_Witness ==
  /\ finished.res = "failed"
  /\ submits # <<>>
  /\ submits[1].shopData.address.pincode = PinA
  /\ submits[1].shopData.address.district = <<>>
  /\ submits[1].shopData.address.state = capitalizeWords(StateA)


\* what a provider's record supplies for village, taluka, district and state
Supplied(po) == <<po.Name, po.Block, po.District, po.State>>

\* C11: on a successful lookup each of village, taluka, district and state
\* becomes the provider's value in title case when the provider supplied a
\* non-empty one, and otherwise keeps exactly the value the draft had when the
\* response is applied.
C11_MergeKeepsUnsupplied ==
  [][ \A i \in DOMAIN lookups :
        \A resp \in ResponsesFor(lookups[i]) :
          (LookupResponse(i, resp) /\ PostOfficeData(UrlOf(lookups[i]), resp) # <<>>)
            => LET po == PostOfficeData(UrlOf(lookups[i]), resp)[1]
               IN  \A j \in 1..4 :
                     Resolved(formData')[j] =
                       IF Supplied(po)[j] # <<>>
                       THEN capitalizeWords(Supplied(po)[j])
                       ELSE Resolved(formData)[j] ]_vars


FilterFields == {"category", "state", "district", "taluka", "village"}

\* the part of a record a criterion is compared with
Compared(shop, field) ==
  IF field = "category" THEN shop.businessCategory ELSE shop.address[field]

\* needle occurs in hay, letter case ignored
ContainsIgnoringCase(hay, needle) ==
  \E k \in 0..(Len(hay) - Len(needle)) :
     \A j \in 1..Len(needle) : lower(hay)[k + j] = lower(needle)[j]

\* a criterion, when it is not empty, matches a record
CriterionMatches(shop, criteria, field) ==
  \/ criteria[field] = <<>>
  \/ IF field = "category"
     THEN lower(shop.businessCategory) = lower(criteria.category)
     ELSE ContainsIgnoringCase(Compared(shop, field), criteria[field])

\* the records at the positions kept, in input order
RECURSIVE Pick(_, _, _)
Pick(records, kept, n) ==
  IF n = 0 THEN <<>>
  ELSE IF n \in kept THEN Append(Pick(records, kept, n - 1), records[n])
       ELSE Pick(records, kept, n - 1)

\* C12: applyLocalFilters returns, in input order, exactly the records every
\* non-empty criterion matches (category by case-insensitive equality, the
\* other four by case-insensitive containment), and the whole input when all
\* five criteria are empty; the recomputation effect stores that result.
C12_FilterKeepsMatches ==
  LET kept == {i \in DOMAIN retailers :
                 \A field \in FilterFields :
                    CriterionMatches(retailers[i], debounced, field)}
  IN  /\ applyLocalFilters(retailers, debounced)
           = Pick(retailers, kept, Len(retailers))
      /\ applyLocalFilters(retailers, NoFilters) = retailers
      /\ filteredData \in {<<>>, Pick(retailers, kept, Len(retailers))}

\* the category criterion has kept a record whose category is written in
\* another case and dropped one of another category
C12_Witness ==
  /\ retailers = <<Shop3, Shop2>>
  /\ debounced = [NoFilters EXCEPT !.category = businessCategories[3]]
  /\ filteredData = <<Shop2>>

\* one criterion applied alone
FilterBy(records, criteria, field) ==
  applyLocalFilters(records, [NoFilters EXCEPT ![field] = criteria[field]])

\* the criteria applied one after another in the given order
RECURSIVE Chain(_, _, _, _)
Chain(records, criteria, order, n) ==
  IF n = 0 THEN records
  ELSE FilterBy(Chain(records, criteria, order, n - 1), criteria, order[n])

\* the orders the five criteria can be applied in
Orders ==
  {order \in [1..5 -> FilterFields] :
     \A i, j \in 1..5 : i # j => order[i] # order[j]}

\* C13: the result of applyLocalFilters holds exactly the records that are in
\* the result of every criterion applied alone, and applying the criteria one
\* after another gives that result in every order.
C13_FilterIsIntersection ==
  LET result == applyLocalFilters(retailers, debounced)
      alone(field) == Range(FilterBy(retailers, debounced, field))
      kept == {i \in DOMAIN retailers :
                 \A field \in FilterFields : retailers[i] \in alone(field)}
  IN  /\ result = Pick(retailers, kept, Len(retailers))
      /\ \A order \in Orders : Chain(retailers, debounced, order, 5) = result

\* two criteria are active, each alone keeps two records, together they keep
\* the one record both keep
C13_Witness ==
  /\ retailers = <<Shop1, Shop2, Shop3>>
  /\ debounced = [NoFilters EXCEPT !.category = businessCategories[3],
                                    !.state = <<"k", "a">>]
  /\ filteredData = <<Shop1>>


DebouncePerField ==
  /\ \A field \in DOMAIN filters : \A value \in TypedFilter(field) :
        setFilter(field, value) =>
          /\ debounced' = debounced
          /\ pending' = pending \cup {field}
  /\ \A field \in DOMAIN filters :
        debounceExpires(field) =>
          /\ debounced' = [debounced EXCEPT ![field] = filters[field]]
          /\ pending' = pending \ {field}

\* C15: a burst of changes of a filter input changes the field's debounced
\* criterion at most once, to the last value of the burst and never to an
\* intermediate one, without touching the timers of the other fields, and
\* that change causes one recomputation of the filtered results, the one at
\* the expiry: no list fetch started by the change of the criterion completes
\* into a further recomputation.
C15_OneRecomputationPerBurst ==
  [][ /\ DebouncePerField
      /\ \A i \in DOMAIN fetches :
            FetchResponse(i, "ok") => fetches[i].kind # "filter" ]_vars


\* C16: with every request succeeding, once the details view has been opened
\* and no list fetch and no delete is outstanding, the client's record set is
\* the directory service's record set, in whatever order the responses came.
C16_ClientSetIsServiceSet ==
  (showDataModal /\ fetches = <<>> /\ deletes = <<>>) => retailers = store


\* C17: when a list fetch fails, an error notification is shown and the
\* client's record set and filtered set are left empty.
C17_FailedFetchLeavesEmpty ==
  [][ \A i \in DOMAIN fetches :
         FetchResponse(i, "error") =>
           /\ toast'.show /\ toast'.type = "error"
           /\ retailers' = <<>>
           /\ filteredData' = <<>> ]_vars


\* a request of the i-th running handleSubmit fails in this step: the create
\* or update (on the network or by the service's answer) or the list fetch
\* after it
SubmitRequestFails(i) ==
  \/ MutationResponse(i, "error")
  \/ MutationResponse(i, "ok") /\ toast'.type = "error"
  \/ RefetchResponse(i, "error")

\* C18: a failure returns the form to an interactive state: the step in which
\* a request of a submit fails (the create or update, or the list fetch)
\* clears isSubmitting, and the form does not enter the Success display.
C18_FailureNeverShowsSuccess ==
  [][ \A i \in DOMAIN submits :
         SubmitRequestFails(i) =>
           /\ ~isSubmitting'
           /\ ~(successMessage = "" /\ successMessage' # "") ]_vars


\* C19: while a create or update request or a list fetch issued by the form
\* is unresolved, the loading flag is true, also when two list fetches overlap
\* and one of them completes first.
C19_LoadingWhileOutstanding ==
  (submits # <<>> \/ fetches # <<>>) => loading


\* the key validateStep files a field's message under
ErrorKey(name) ==
  IF name = <<"address", "street">> THEN "address" ELSE name[Len(name)]

\* the field has a message in the error map
HasError(errs, name) ==
  ErrorKey(name) \in DOMAIN errs /\ errs[ErrorKey(name)] # ""

\* C20: after a failed validation, a change of a field that has an entry in
\* the error map blanks that entry at once and leaves the other entries as
\* they are, for every validated field of both steps, address.street,
\* address.pincode and address.state among them.
C20_EditClearsFieldError ==
  [][ \A name \in Step1Fields \cup Step2Fields :
         \A value \in TypedStep2(name) :
            (handleChange(name, value) /\ HasError(errors, name))
              => /\ DOMAIN errors' = DOMAIN errors
                 /\ errors'[ErrorKey(name)] = ""
                 /\ \A key \in DOMAIN errors \ {ErrorKey(name)} :
                       errors'[key] = errors[key] ]_vars


\* the first letter of every word of typed in upper case, every other
\* character as typed
TitleCased(typed) ==
  [i \in DOMAIN typed |->
     IF /\ typed[i] \in Range(LowerLetters)
        /\ (i = 1 \/ ~IsWordChar(typed[i - 1]))
     THEN toUpperCase(typed[i]) ELSE typed[i]]

\* the fields of the draft
DraftFields ==
  Step1Fields \cup Step2Fields \cup {<<"address", "country">>, <<"_id">>}

\* C21: a change event stores the title-cased input in the edited field, the
\* input as typed for email and website, and leaves every other field of the
\* draft and the step as they are.
C21_ChangeStoresTitleCase ==
  [][ \A name \in Step1Fields \cup Step2Fields : \A value \in TypedRaw(name) :
         handleChange(name, value) =>
           /\ FieldValue(formData', name) =
                IF name \in {<<"email">>, <<"website">>} THEN value
                ELSE TitleCased(value)
           /\ \A other \in DraftFields \ {name} :
                 FieldValue(formData', other) = FieldValue(formData, other)
           /\ DOMAIN formData' = DOMAIN formData
           /\ DOMAIN formData'.address = DOMAIN formData.address
           /\ currentStep' = currentStep ]_vars

\* a two-word name typed in mixed case is stored with both first letters in
\* upper case next to an email stored as typed, on the second step
C21_Witness ==
  /\ formData.ownerName = <<"A", "B", " ", "C">>
  /\ formData.email = EmailA
  /\ formData.address.village = <<"K", "t">>
  /\ currentStep = 2


\* empty, or one of the fixed set of categories
ListedCategory(category) ==
  category = <<>> \/ category \in Range(businessCategories)

\* C22: in a form that only creates records, the businessCategory of the draft
\* is empty or one of the four listed categories, and so is the
\* businessCategory of every create request in flight.
C22_CategoryIsListed ==
  /\ ListedCategory(formData.businessCategory)
  /\ \A i \in DOMAIN submits :
        submits[i].kind = "create"
          => ListedCategory(submits[i].shopData.businessCategory)


\* C23: at step 2 of the form prevStep can always be taken, whatever the
\* draft contains; it moves to step 1 and leaves every field of the draft and
\* the edit target as they are; at step 1 the step it computes is 1.
C23_PreviousKeepsDraft ==
  /\ []((FormReachable /\ currentStep = 2) => ENABLED prevStep)
  /\ [][ prevStep =>
           /\ currentStep = 2 /\ currentStep' = 1
           /\ formData' = formData
           /\ editMode' = editMode /\ editIndex' = editIndex ]_vars
  /\ [](SteppedBack(1) = 1)

\* a loaded record whose street was retyped on step 2 is back on step 1: the
\* way back from step 2 with edit mode on is prevStep
C23_Witness ==
  /\ editMode /\ editIndex # <<>>
  /\ currentStep = 1
  /\ formData.address.street = capitalizeWords(StreetA)
  /\ formData.address.street # editIndex[1].address.street


\* the fixed order of the columns of the spreadsheet
Columns ==
  << "Business Category", "Owner Name", "Shop Name", "Phone Number", "Email",
     "Website", "Address", "PIN Code", "Village/Colony", "Taluka", "District",
     "State", "Country" >>

\* the values of a record in the order of the columns
ColumnValues(shop) ==
  << shop.businessCategory, shop.ownerName, shop.shopName, shop.shopPhone,
     shop.email, shop.website, shop.address.street, shop.address.pincode,
     shop.address.village, shop.address.taluka, shop.address.district,
     shop.address.state, shop.address.country >>

\* C24: the spreadsheet exported from the filtered set has one row of data
\* per record, in the order of the filtered set, with the columns in the
\* fixed order (the order of the column names of its first row) and every
\* empty value written as "N/A"; the export starts no fetch and changes no
\* state.
C24_SheetRowPerRecord ==
  [][ exportToExcel =>
        LET sheet == saved'[1].content
            rows == IF sheet = <<>> THEN <<>> ELSE Tail(sheet)
        IN  /\ Len(rows) = Len(filteredData)
            /\ rows # <<>> => sheet[1] = Columns
            /\ \A i \in DOMAIN filteredData : \A j \in DOMAIN Columns :
                  rows[i][j] =
                    IF ColumnValues(filteredData[i])[j] = <<>> THEN NA
                    ELSE ColumnValues(filteredData[i])[j]
            /\ UNCHANGED <<formVars, viewVars, listVars, serverVars,
                           flightVars, detailVars, budget, finished>> ]_vars

\* a spreadsheet of the two records has been delivered, with the website the
\* first record lacks written as N/A
C24_Witness ==
  /\ saved # <<>> /\ saved[1].name = "shops.xlsx"
  /\ Len(saved[1].content) = 3
  /\ saved[1].content[2][6] = NA
  /\ saved[1].content[3][2] = Shop2.ownerName

\* C25: the spreadsheet exported from an empty set has the row of column
\* names and no row of data, and the document exported from an empty set has
\* one page with the 'no data' notice and no section of a record.
C25_EmptyExportHasHeaders ==
  [][ /\ (exportToExcel /\ filteredData = <<>>)
          => saved'[1].content = <<Columns>>
      /\ (exportToPDF /\ filteredData = <<>>)
          => /\ Len(saved'[1].content) = 1
             /\ saved'[1].content[1].body =
                  << [kind |-> "text", text |-> "No data available."] >> ]_vars


\* the positions of the records with the id
Holding(id) == {i \in DOMAIN store : store[i]._id = id}

\* the answer is an error of the given status and the store is as it was
Refused(status) ==
  /\ response'[1].status = status
  /\ DOMAIN response'[1].body = {"error"}
  /\ store' = store

ValidForSubmission(fd) ==
  /\ isValid(validateStep(1, fd))
  /\ isValid(validateStep(2, fd))

C28_StaleResponseIsDropped ==
  [][ \A i \in DOMAIN lookups :
        \A resp \in ResponsesFor(lookups[i]) :
           (LookupResponse(i, resp)
              /\ lookups[i].pincode # formData.address.pincode)
             => formData'.address = formData.address ]_vars


\* the parts of the draft a lookup has no business with
OutsideLookup(fd) ==
  <<fd._id, fd.businessCategory, fd.ownerName, fd.shopName, fd.shopPhone,
    fd.email, fd.website, fd.address.street, fd.address.pincode,
    fd.address.country>>

\* C29: whatever a provider answers, LookupResponse leaves street, pincode,
\* country, every step-1 field, the step, the error map and the edit target
\* as they are: only village, taluka, district and state can change.
C29_LookupTouchesResolvedFieldsOnly ==
  [][ \A i \in DOMAIN lookups :
        \A resp \in ResponsesFor(lookups[i]) :
           LookupResponse(i, resp)
             => /\ OutsideLookup(formData') = OutsideLookup(formData)
                /\ UNCHANGED <<currentStep, errors, editMode, editIndex>> ]_vars

\* a success of the secondary provider has been merged into a loaded record
\* while the form shows an error
C29_Witness ==
  /\ finished.res = "updated" /\ Len(finished.log) = 2
  /\ editMode /\ editIndex # <<>>
  /\ formData.address.state = capitalizeWords(SecondaryFull.body.data[1].state)
  /\ ~isValid(errors)


\* the ids of the delete operations in progress: the request is outstanding,
\* or it was answered and the re-fetch that follows it is
DeletesInProgress ==
  [ request |-> {deletes[i].id : i \in DOMAIN deletes},
    refetch |-> {fetches[i].id : i \in {j \in DOMAIN fetches :
                                          fetches[j].kind = "delete"}} ]

\* C30: deletingIds is the set of ids whose delete is in progress (request
\* or follow-up re-fetch), whatever deletes of other ids do meanwhile, and no
\* id has two delete operations in progress at once.
C30_DeletingIdsAreDeletesInProgress ==
  /\ deletingIds = DeletesInProgress.request \cup DeletesInProgress.refetch
  /\ \A i, j \in DOMAIN deletes : deletes[i].id = deletes[j].id => i = j
  /\ \A i, j \in DOMAIN fetches :
       (/\ fetches[i].kind = "delete" /\ fetches[j].kind = "delete"
        /\ fetches[i].id = fetches[j].id) => i = j
  /\ DeletesInProgress.request \cap DeletesInProgress.refetch = {}

\* two deletes overlap: the request of one is outstanding while the other
\* has been answered and waits for its re-fetch
C30_Witness ==
  /\ DeletesInProgress.request = {Shop2._id}
  /\ DeletesInProgress.refetch = {Shop1._id}
  /\ deletingIds = {Shop1._id, Shop2._id}

====
